---- MODULE Spec2Model ----
(***************************************************************************)
(* Study_AI_Nexus: the generate endpoint (src/app/api/generate/route.ts),  *)
(* and the session state machine of the page component Home                *)
(* (src/unnamed/part_000).                                                 *)
(*                                                                         *)
(* The specifications of the module:                                       *)
(*   SpecRoute  one request handled by the generate endpoint's POST        *)
(*   SpecEndpoints  one request handled by the generate endpoint's or by   *)
(*              the chat endpoint's POST (src/unnamed/part_001)            *)
(*   Spec       the page's session: handlers and their awaited replies     *)
(***************************************************************************)
EXTENDS Integers, Sequences, FiniteSets, TLC

VARIABLES
    \* ---- generate endpoint, one request (route.ts POST) ----
    pc,             \* position of the handler: "start", "send", "await", "delay", "done"
                    \* (the chat endpoint's POST: "chat_start", "chat_await", "done")
    req,            \* the request body
    envKey,         \* whether process.env.GEMINI_API_KEY is set
    listing,        \* what the model listing call did
    listCalls,      \* listing calls made
    selectedModel,  \* route.ts:57
    promptParts,    \* route.ts:75
    i,              \* the loop counter of route.ts:162
    attempts,       \* generation requests sent to the provider
    delays,         \* delay(DELAY_MS) calls that have elapsed
    replies,        \* the provider's replies so far, in order
    response,       \* what POST returned
    source,         \* what the transcript and document sources gave this request
    \* ---- page session (part_000 Home) ----
    loading, error, result, topic, file,
    chatMessages, isChatLoading,
    isExamMode, examQuestions, examAnswers, gradingResult, isGrading,
    nodes, edges,
    dagreNodes, dagreEdges,   \* contents of the module-level dagreGraph
    storage,        \* localStorage entry 'study_ai_result'
    inflight,       \* handlers awaiting their reply, with what their closure captured
    started         \* requests started since the page was first opened

routeVars == <<pc, req, envKey, listing, listCalls, selectedModel, promptParts,
               i, attempts, delays, replies, response, source>>

homeVars == <<loading, error, result, topic, file, chatMessages, isChatLoading,
              isExamMode, examQuestions, examAnswers, gradingResult,
              isGrading, nodes, edges, dagreNodes, dagreEdges, storage, inflight,
              started>>

vars == <<routeVars, homeVars>>

Null == [null |-> TRUE]   \* JavaScript null / undefined

Min(a, b) == IF a < b THEN a ELSE b

(***************************************************************************)
(* Text as a sequence of characters.                                       *)
(***************************************************************************)
BT == "BT"                \* the backtick character
QT == "QT"                \* the double quote character
NL == "NL"                \* the line feed character

FenceJson == <<BT, BT, BT, "j", "s", "o", "n">>
Fence     == <<BT, BT, BT>>

IsPrefix(p, s) == Len(p) <= Len(s) /\ SubSeq(s, 1, Len(p)) = p

\* String.prototype.replace(/pat/g, ''): one left-to-right pass
RECURSIVE ReplaceAll(_, _)
ReplaceAll(s, pat) ==
    IF s = <<>> THEN <<>>
    ELSE IF IsPrefix(pat, s)
         THEN ReplaceAll(SubSeq(s, Len(pat) + 1, Len(s)), pat)
         ELSE <<Head(s)>> \o ReplaceAll(Tail(s), pat)

IsSpace(c) == c \in {" ", NL}

RECURSIVE TrimLeft(_)
TrimLeft(s) == IF s # <<>> /\ IsSpace(Head(s)) THEN TrimLeft(Tail(s)) ELSE s

RECURSIVE TrimRight(_)
TrimRight(s) ==
    IF s # <<>> /\ IsSpace(s[Len(s)]) THEN TrimRight(SubSeq(s, 1, Len(s) - 1)) ELSE s

Trim(s) == TrimRight(TrimLeft(s))

\* route.ts:186
CleanedText(aiText) == Trim(ReplaceAll(ReplaceAll(aiText, FenceJson), Fence))

(***************************************************************************)
(* JSON.parse on the grammar   value ::= {} | {"k":"v"}                    *)
(* with k, v strings without quotes; surrounding white space is allowed.   *)
(* The result is SyntaxError (thrown) or the parsed object.                *)
(***************************************************************************)
SyntaxError == [syntaxError |-> TRUE]
EmptyObject == [k |-> <<>>, v |-> <<>>, empty |-> TRUE]

HasQuote(s) == \E n \in 1..Len(s) : s[n] = QT

JsonParse(text) ==
    LET s == Trim(text)
        n == Len(s)
    IN  IF n < 2 \/ s[1] # "{" \/ s[n] # "}" THEN SyntaxError
        ELSE IF n = 2 THEN EmptyObject
        ELSE LET body == SubSeq(s, 2, n - 1)
                 m    == Len(body)
                 seps == {c \in 2..(m - 3) :
                             /\ body[c] = QT /\ body[c + 1] = ":" /\ body[c + 2] = QT
                             /\ ~HasQuote(SubSeq(body, 2, c - 1))
                             /\ ~HasQuote(SubSeq(body, c + 3, m - 1))}
             IN  IF m >= 5 /\ body[1] = QT /\ body[m] = QT /\ seps # {}
                 THEN LET c == CHOOSE x \in seps : TRUE
                      IN  [k |-> SubSeq(body, 2, c - 1),
                           v |-> SubSeq(body, c + 3, m - 1), empty |-> FALSE]
                 ELSE SyntaxError

(***************************************************************************)
(* The generate endpoint: POST of src/app/api/generate/route.ts            *)
(***************************************************************************)
MAX_RETRIES == 3
DELAY_MS == 2500

GenerateLimit == 40000
ExpandLimit   == 3000
ExamLimit     == 10000
GradeLimit    == 5000

DefaultModel == "gemini-1.5-flash"
ListedModel  == "gemini-2.0-flash"

\* Lengths of the text fields of a request (0: the field is empty, or a falsy absent
\* one; 50000: a text longer than every limit)
TextLens == {0, 12, 50000}
\* the topic may also be missing from the body: undefined, written -1
TopicLens == {-1} \cup TextLens

\* The request bodies considered.  A string field is given by its length.
Requests ==
    { r \in [action : {"generate", "expand", "exam", "grade"},
             type : {"text", "youtube"},
             topic : TopicLens,
             context : TextLens,
             fileData : BOOLEAN,
             mimeType : {"", "image/png", "application/pdf"},
             messages : {0}] :
        /\ (r.mimeType # "") => r.fileData
        /\ (r.type = "youtube") => ~r.fileData
        /\ (r.action # "generate") => (~r.fileData /\ r.type = "text")
        /\ (r.action = "generate") => r.context = 0 }

\* What the environment of one request does
Listings == {"throws", "malformed", "nomatch", "match"}
\* videoId: the link holds an 11 character id; transcript: -1 when fetchTranscript
\* throws, else the length of the joined captions; pdfText: the length getPdfText gives
Sources  == [videoId : BOOLEAN, transcript : {-1} \cup TextLens, pdfText : TextLens]
NoSource == [videoId |-> FALSE, transcript |-> -1, pdfText |-> 0]
\* the sources a request can meet: a source it never consults is left at NoSource,
\* an id needs a link to be found in, and an image is no document to extract from
SourcesFor(r) ==
    { s \in Sources :
        /\ s.videoId => (r.action = "generate" /\ r.type = "youtube" /\ r.topic > 0)
        /\ (s.transcript # -1) => s.videoId
        /\ (s.pdfText # 0) => (/\ r.action = "generate" /\ r.type = "text"
                               /\ r.fileData /\ r.mimeType # "image/png") }

JsonResponse(body, status) == [kind |-> "json", status |-> status, body |-> body]
NoResponse == [kind |-> "none", status |-> 0, body |-> Null]
\* the handler ran off its end: POST resolved to undefined
Undefined  == [kind |-> "undefined", status |-> 0, body |-> Null]
ErrorBody(msg) == [error |-> msg]
UndefinedText == <<"undefined">>

TextPart(n)   == [kind |-> "text", len |-> n]
InlinePart    == [kind |-> "inline_data", len |-> 0]
OcrPart       == [kind |-> "ocr", len |-> 0]
Instruction(a, n) == [kind |-> "instruction", action |-> a, len |-> n]

\* route.ts:51-53
ApiKey(envSet) == IF envSet THEN "env-key" ELSE "AIza-fallback"
KeyMissing(envSet) == ApiKey(envSet) = ""

\* route.ts:195-198: the outer catch
InternalError == JsonResponse(ErrorBody("Internal Server Error"), 500)

\* route.ts:31-36, 115: url.match on a topic that is no string throws
GetYoutubeVideoId(r, src) ==
    IF r.topic < 0 THEN "TypeError"
    ELSE IF r.topic > 0 /\ src.videoId THEN "id" ELSE "null"

\* the image test naming one image type only
IsImage_JpegOnly(mimeType) == mimeType = "image/jpeg"
\* route.ts:125
IsImage(mimeType) == mimeType = "image/png"

\* the first listed model taken without the capability filter
ResolveModel_Unfiltered(l) == IF l \in {"match", "nomatch"} THEN ListedModel ELSE DefaultModel
\* route.ts:57-72
ResolveModel(l) == IF l = "match" THEN ListedModel ELSE DefaultModel

\* route.ts:80-157: the prompt parts, or the early error response
\* (src: what the transcript and document sources give for this request)
Compile(r, src) ==
    CASE r.action = "expand" ->
           [early |-> Null,
            parts |-> <<Instruction("expand",
                          IF r.context # 0 THEN Min(r.context, ExpandLimit)
                          ELSE IF r.topic < 0 THEN Len(UndefinedText[1]) ELSE r.topic)>>]
      [] r.action = "exam" ->
           [early |-> Null,
            parts |-> <<Instruction("exam",
                          IF r.context # 0 THEN Min(r.context, ExamLimit)
                          ELSE IF r.topic < 0 THEN Len(UndefinedText[1]) ELSE r.topic)>>]
      [] r.action = "grade" ->
           [early |-> Null,
            parts |-> <<Instruction("grade",
                          IF r.context # 0 THEN Min(r.context, GradeLimit) ELSE 0)>>]
      [] OTHER ->
           IF r.type = "youtube"
           THEN IF GetYoutubeVideoId(r, src) = "TypeError"
                THEN [early |-> InternalError, parts |-> <<>>]
                ELSE IF GetYoutubeVideoId(r, src) = "null"
                THEN [early |-> JsonResponse(ErrorBody("Invalid YouTube Link"), 400),
                      parts |-> <<>>]
                ELSE IF src.transcript < 0
                THEN [early |-> JsonResponse(ErrorBody("No captions found."), 400),
                      parts |-> <<>>]
                ELSE [early |-> Null,
                      parts |-> <<Instruction("generate", 0)>> \o
                                (IF src.transcript # 0
                                 THEN <<TextPart(Min(src.transcript, GenerateLimit))>>
                                 ELSE <<>>)]
           ELSE IF r.fileData
           THEN IF IsImage(r.mimeType)
                THEN [early |-> Null,
                      parts |-> <<Instruction("generate", 0), InlinePart, OcrPart>>]
                ELSE IF src.pdfText = 0
                THEN [early |-> JsonResponse(ErrorBody("Empty PDF."), 400),
                      parts |-> <<>>]
                ELSE [early |-> Null,
                      parts |-> <<Instruction("generate", 0),
                                  TextPart(Min(src.pdfText, GenerateLimit))>>]
           ELSE [early |-> Null,
                 parts |-> <<Instruction("generate", 0)>> \o
                           (IF r.topic > 0
                            THEN <<TextPart(Min(r.topic, GenerateLimit))>>
                            ELSE <<>>)]

(***************************************************************************)
(* The provider's replies to a generation request.                         *)
(***************************************************************************)
Obj(k, v) == <<"{", QT>> \o k \o <<QT, ":", QT>> \o v \o <<QT, "}">>
Fenced(t) == FenceJson \o <<NL>> \o t \o <<NL>> \o Fence

PlainText    == Obj(<<"t">>, <<"T">>)                 \* {"t":"T"}
FencedText   == Fenced(PlainText)
TickText     == Obj(<<"t">>, <<BT, BT, BT, "c">>)     \* a value holding a fence
FencedTickText == Fenced(TickText)
ExamText     == Obj(<<"e", "x", "a", "m">>, <<"E">>)  \* {"exam":"E"}
GarbageText  == <<"n", "o", "t", " ", "j">>           \* not json at all
SampleTexts  == {PlainText, FencedText, TickText, FencedTickText, ExamText, GarbageText}

Thrown == [kind |-> "throw", ok |-> FALSE, code |-> 0, hasText |-> FALSE, text |-> <<>>]
Http(ok, code, hasText, text) ==
    [kind |-> "http", ok |-> ok, code |-> code, hasText |-> hasText, text |-> text]

Busy == Http(FALSE, 503, FALSE, <<>>)

ProviderReplies ==
    {Thrown, Busy, Http(FALSE, 429, FALSE, <<>>), Http(FALSE, 0, FALSE, <<>>),
     Http(TRUE, 0, FALSE, <<>>), Http(TRUE, 0, TRUE, <<>>)}
    \cup {Http(TRUE, 0, TRUE, t) : t \in SampleTexts}

\* the busy test reading a rate-limit code instead of 503
IsBusy_WrongCode(r) == r.kind = "http" /\ ~r.ok /\ r.code = 429
\* route.ts:174-175
IsBusy(r) == r.kind = "http" /\ ~r.ok /\ r.code = 503
\* route.ts:183-184: the reply carries text
HasAiText(r) == r.kind = "http" /\ r.ok /\ r.hasText /\ r.text # <<>>
\* route.ts:186-187
Parsed(r) == JsonParse(CleanedText(r.text))
\* success decided on the presence of text alone, the parse unguarded
IsSuccess_Unparsed(r) == r.kind = "http" /\ r.ok /\ r.hasText /\ r.text # <<>>
IsSuccess(r) == HasAiText(r) /\ Parsed(r) # SyntaxError
\* every other reply ends in the catch block of route.ts:189
IsCaught(r) == ~IsBusy(r) /\ ~IsSuccess(r)

ServiceUnavailable == JsonResponse(ErrorBody("AI Service Unavailable. Try again."), 503)

\* the loop bound one too large
LoopContinues_ExtraRound(n) == n <= MAX_RETRIES + 1
\* route.ts:162: the loop condition, evaluated with counter n
LoopContinues(n) == n <= MAX_RETRIES
\* the budget test off by one
LastAttempt_OffByOne(n) == n = MAX_RETRIES - 1
\* route.ts:191
LastAttempt(n) == n = MAX_RETRIES

\* after the loop body ends with counter n (continue, or the catch block falling through)
NextIteration(n) ==
    IF LoopContinues(n + 1)
    THEN /\ pc' = "send" /\ i' = n + 1 /\ response' = response
    ELSE /\ pc' = "done" /\ i' = n + 1 /\ response' = Undefined

InitRouteVars ==
    /\ pc = "start"
    /\ req \in Requests
    /\ envKey \in BOOLEAN
    /\ listing = "none"
    /\ listCalls = 0
    /\ selectedModel = DefaultModel
    /\ promptParts = <<>>
    /\ i = 0
    /\ attempts = 0
    /\ delays = 0
    /\ replies = <<>>
    /\ response = NoResponse
    /\ source = NoSource

\* route.ts:46-160: credential check, model discovery, prompt compilation
Begin ==
    /\ pc = "start"
    /\ IF KeyMissing(envKey)
       THEN /\ response' = JsonResponse(ErrorBody("API Key missing."), 401)
            /\ pc' = "done"
            /\ UNCHANGED <<listing, listCalls, selectedModel, promptParts, i, source>>
       ELSE \E l \in Listings, src \in SourcesFor(req) :
              LET c == Compile(req, src) IN
              /\ listing' = l
              /\ source' = src
              /\ listCalls' = listCalls + 1
              /\ selectedModel' = ResolveModel(l)
              /\ promptParts' = c.parts
              /\ IF c.early # Null
                 THEN /\ response' = c.early /\ pc' = "done" /\ i' = i
                 ELSE /\ response' = response /\ pc' = "send" /\ i' = 1
    /\ UNCHANGED <<req, envKey, attempts, delays, replies, homeVars>>

\* route.ts:165-169: the generation request is sent
Send ==
    /\ pc = "send"
    /\ pc' = "await"
    /\ attempts' = attempts + 1
    /\ UNCHANGED <<req, envKey, listing, listCalls, selectedModel, promptParts, i,
                   delays, replies, response, source, homeVars>>

\* the busy branch going on without awaiting the delay
Receive_NoDelay ==
    /\ pc = "await"
    /\ \E r \in ProviderReplies :
         /\ replies' = Append(replies, r)
         /\ IF IsBusy(r)
            THEN NextIteration(i)
            ELSE IF IsSuccess(r)
            THEN /\ response' = JsonResponse(Parsed(r), 200)
                 /\ pc' = "done" /\ i' = i
            ELSE IF LastAttempt(i)
            THEN /\ response' = ServiceUnavailable
                 /\ pc' = "done" /\ i' = i
            ELSE NextIteration(i)
    /\ UNCHANGED <<req, envKey, listing, listCalls, selectedModel, promptParts,
                   attempts, delays, source, homeVars>>
\* route.ts:171-192: the reply arrives
Receive ==
    /\ pc = "await"
    /\ \E r \in ProviderReplies :
         /\ replies' = Append(replies, r)
         /\ IF IsBusy(r)
            THEN /\ pc' = "delay" /\ UNCHANGED <<i, response>>
            ELSE IF IsSuccess(r)
            THEN /\ response' = JsonResponse(Parsed(r), 200)
                 /\ pc' = "done" /\ i' = i
            ELSE IF LastAttempt(i)
            THEN /\ response' = ServiceUnavailable
                 /\ pc' = "done" /\ i' = i
            ELSE NextIteration(i)
    /\ UNCHANGED <<req, envKey, listing, listCalls, selectedModel, promptParts,
                   attempts, delays, source, homeVars>>

\* route.ts:177-178: the delay elapses, continue
DelayElapsed ==
    /\ pc = "delay"
    /\ delays' = delays + 1
    /\ NextIteration(i)
    /\ UNCHANGED <<req, envKey, listing, listCalls, selectedModel, promptParts,
                   attempts, replies, source, homeVars>>

NextRoute == Begin \/ Send \/ Receive \/ DelayElapsed

(***************************************************************************)
(* The chat endpoint: POST of src/unnamed/part_001                         *)
(***************************************************************************)
ChatLimit == 25000

\* The chat request bodies: the context by its length, the messages by their number
\* (-1: the body has no messages)
ChatRequests ==
    [action : {"chat"}, type : {"text"}, topic : {0}, context : {0, 12, 30000},
     fileData : {FALSE}, mimeType : {""}, messages : {-1, 1, 2}]

\* part_001:8-10
ChatKeyMissing(envSet) == (IF envSet THEN "env-key" ELSE "AIza-fallback") = ""

\* part_001:13-23
ChatResolveModel(l) == IF l = "match" THEN ListedModel ELSE DefaultModel

\* part_001:25-49: the system instruction, the acknowledgement and the history
ChatContents(r) ==
    <<Instruction("chat", IF r.context # 0 THEN Min(r.context, ChatLimit) ELSE 0),
      TextPart(0)>> \o [m \in 1..r.messages |-> TextPart(0)]

\* part_001:59-66: the replies of the provider to the chat request
ChatProviderReplies ==
    {Thrown, Busy, Http(FALSE, 0, FALSE, <<>>), Http(TRUE, 0, FALSE, <<>>),
     Http(TRUE, 0, TRUE, PlainText), Http(TRUE, 0, TRUE, GarbageText)}

\* part_001:62: data.error?.message || "Chat failed"
ChatErrorMessage(r) == IF r.code # 0 THEN "provider message" ELSE "Chat failed"

\* part_001:65-66: {reply}, with an undefined reply dropped by the serializer
ChatReplyBody(r) == IF r.hasText THEN [reply |-> r.text] ELSE [reply |-> UndefinedText]

\* part_001:3-57: credential check, model discovery, prompt, the request is sent
ChatBegin ==
    /\ pc = "chat_start"
    /\ IF ChatKeyMissing(envKey)
       THEN /\ response' = JsonResponse(ErrorBody("API Key is missing."), 401)
            /\ pc' = "done"
            /\ UNCHANGED <<listing, listCalls, selectedModel, promptParts, attempts>>
       ELSE \E l \in Listings :
              /\ listing' = l
              /\ listCalls' = listCalls + 1
              /\ selectedModel' = ChatResolveModel(l)
              /\ IF req.messages < 0
                 THEN /\ response' = InternalError /\ pc' = "done"
                      /\ UNCHANGED <<promptParts, attempts>>
                 ELSE /\ promptParts' = ChatContents(req)
                      /\ attempts' = attempts + 1
                      /\ pc' = "chat_await" /\ response' = response
    /\ UNCHANGED <<req, envKey, i, delays, replies, source, homeVars>>

\* part_001:59-70: the reply arrives
ChatReceive ==
    /\ pc = "chat_await"
    /\ \E r \in ChatProviderReplies :
         /\ replies' = Append(replies, r)
         /\ response' = IF r.kind = "throw" THEN InternalError
                         ELSE IF ~r.ok THEN JsonResponse(ErrorBody(ChatErrorMessage(r)), 500)
                         ELSE JsonResponse(ChatReplyBody(r), 200)
         /\ pc' = "done"
    /\ UNCHANGED <<req, envKey, listing, listCalls, selectedModel, promptParts, i,
                   attempts, delays, source, homeVars>>

NextChat == ChatBegin \/ ChatReceive

(***************************************************************************)
(* The page component Home of src/unnamed/part_000: data                   *)
(***************************************************************************)
MaxRequests == 3    \* requests started in one run

NullStr   == "<null>"         \* null in a string slot
UndefStr  == "<undefined>"    \* undefined in a string slot

Topics == {"", " ", "Photosynthesis"}
\* String.prototype.trim() on the topics considered
TrimTopic(t) == IF t = " " THEN "" ELSE t

Lower(c) ==
    CASE c = "A" -> "a" [] c = "B" -> "b" [] c = "C" -> "c" [] c = "D" -> "d"
      [] OTHER -> c

\* label.replace(/\s+/g, '_').toLowerCase()   (part_000:349, 354)
RECURSIVE NodeId(_)
NodeId(label) ==
    IF label = <<>> THEN <<>>
    ELSE IF IsSpace(Head(label))
         THEN <<"_">> \o NodeId(TrimLeft(label))
         ELSE <<Lower(Head(label))>> \o NodeId(Tail(label))

Thinking == <<"Thinking...">>

RawEdge(s, t) == [source |-> s, target |-> t]

LA == <<"A">>
LB == <<"B">>
LC == <<"C">>
LD == <<"D">>
Lb == <<"b">>

BundleEdges == <<RawEdge(LA, LB), RawEdge(LA, LC)>>
\* the new edges an expand reply may carry
NewEdgeLists == {<<RawEdge(LB, LD)>>, <<RawEdge(LC, Lb)>>}

\* quiz entries as the provider writes them: the second names a correct option
\* that is not among its options, of which there is one
QuizEntry(a, correct) == [q |-> "q", a |-> a, correct |-> correct]
QuizOf(c) == IF c = "B1" THEN <<QuizEntry(<<"A", "B">>, "A")>>
             ELSE <<QuizEntry(<<"A", "B">>, "B"), QuizEntry(<<"A">>, "C")>>

\* A StudyBundle: content stands for title, summary, keyPoints, flashcards, stats
Bundle(c, hasEdges, es) ==
    [content |-> c, quiz |-> QuizOf(c), hasEdges |-> hasEdges, mindMapEdges |-> es]
\* (the third bundle's graph has another root than the first's)
Bundles == {Bundle("B1", TRUE, BundleEdges), Bundle("B2", FALSE, <<>>),
            Bundle("B3", TRUE, <<RawEdge(LD, LA)>>)}

QIds == {1, 2}
Unset == "<unset>"
\* the answers entered: an option of the first question, an emptied text box for the second
AnswersTo(q) == IF q = 1 THEN {"A"} ELSE {""}
Exam == <<[id |-> 1, type |-> "mcq", question |-> "q1"],
          [id |-> 2, type |-> "text", question |-> "q2"]>>
Exam2 == <<[id |-> 1, type |-> "text", question |-> "q3"]>>
Exams == {Exam, Exam2}

Correction(q) == [questionId |-> q, status |-> "Correct"]
Grading(cs) == [score |-> "85/100", corrections |-> cs, isError |-> FALSE]
Gradings == {Grading(<<Correction(1), Correction(2)>>), Grading(<<Correction(1)>>)}

\* a body {error: msg}, as the endpoint gives with its 400, 500 and 503 responses
ErrBody(msg) == [error |-> msg, isError |-> TRUE]
ErrBodies == {ErrBody("AI Service Unavailable. Try again.")}

\* What fetch and res.json() give the awaiting handler
JsonReply(ok, body) == [kind |-> "json", ok |-> ok, body |-> body]
\* fetch rejected, or the body was not JSON: an Error with a message is thrown
ThrowReply == [kind |-> "throw", ok |-> FALSE, body |-> Null]

ErrorReplies == {JsonReply(FALSE, b) : b \in ErrBodies}

RepliesTo(r) ==
    (CASE r.kind = "generate" -> {JsonReply(TRUE, b) : b \in Bundles}
       [] r.kind = "expand" -> {JsonReply(TRUE, [newEdges |-> n, isError |-> FALSE]) :
                                  n \in NewEdgeLists}
       [] r.kind = "exam" -> {JsonReply(TRUE, [exam |-> e, isError |-> FALSE]) :
                                e \in Exams}
       [] r.kind = "grade" -> {JsonReply(TRUE, g) : g \in Gradings}
       [] OTHER -> {JsonReply(TRUE, [reply |-> "answer", isError |-> FALSE])})
    \cup ErrorReplies \cup {ThrowReply}

(***************************************************************************)
(* Graph builder: processMindMapData and getLayoutedElements               *)
(***************************************************************************)
\* part_000:346: the labels in the order the edges mention them
Mentions(rawEdges) ==
    [n \in 1..(2 * Len(rawEdges)) |->
        IF n % 2 = 1 THEN rawEdges[(n + 1) \div 2].source ELSE rawEdges[n \div 2].target]

\* insertion into a Set keeps the first occurrence of each value
RECURSIVE Distinct(_, _)
Distinct(s, seen) ==
    IF s = <<>> THEN <<>>
    ELSE IF Head(s) \in seen THEN Distinct(Tail(s), seen)
         ELSE <<Head(s)>> \o Distinct(Tail(s), seen \cup {Head(s)})

\* an array of the mentions instead of a Set
UniqueNodes_Array(rawEdges) == Mentions(rawEdges)
\* part_000:345-346
UniqueNodes(rawEdges) == Distinct(Mentions(rawEdges), {})

\* part_000:348-352 (root: the style given to index 0; dashed: the style of a node
\* being expanded)
NewNodes(rawEdges) ==
    LET u == UniqueNodes(rawEdges)
    IN  [n \in 1..Len(u) |->
            [id |-> NodeId(u[n]), label |-> u[n], root |-> (n = 1), dashed |-> FALSE]]

\* the ids counted from one
EdgeId_FromOne(n) == <<"e", n + 1>>
\* part_000:354: `e${i}`
EdgeId(n) == <<"e", n>>

\* the edges keeping the raw labels as their ends
NewEdges_RawLabels(rawEdges) ==
    [n \in 1..Len(rawEdges) |->
        [id |-> EdgeId(n - 1), source |-> rawEdges[n].source,
         target |-> rawEdges[n].target]]
\* part_000:353-355
NewEdges(rawEdges) ==
    [n \in 1..Len(rawEdges) |->
        [id |-> EdgeId(n - 1), source |-> NodeId(rawEdges[n].source),
         target |-> NodeId(rawEdges[n].target)]]

Range(f) == {f[x] : x \in DOMAIN f}

\* part_000:136-146: what dagreGraph holds once the pass has run on the new elements
LayoutNodes(ns, g) == g \cup {n.id : n \in Range(ns)}
LayoutEdges(es, g) == g \cup {<<e.source, e.target>> : e \in Range(es)}

\* the new nodes added to those already shown
ProcessMindMapData_Appends(rawEdges) ==
    /\ nodes' = nodes \o NewNodes(rawEdges)
    /\ edges' = NewEdges(rawEdges)
    /\ dagreNodes' = LayoutNodes(NewNodes(rawEdges), dagreNodes)
    /\ dagreEdges' = LayoutEdges(NewEdges(rawEdges), dagreEdges)
\* part_000:344-358
ProcessMindMapData(rawEdges) ==
    /\ nodes' = NewNodes(rawEdges)
    /\ edges' = NewEdges(rawEdges)
    /\ dagreNodes' = LayoutNodes(NewNodes(rawEdges), dagreNodes)
    /\ dagreEdges' = LayoutEdges(NewEdges(rawEdges), dagreEdges)

(***************************************************************************)
(* Home: what is rendered                                                  *)
(***************************************************************************)
InputVisible == result = Null /\ ~loading /\ ~isExamMode      \* part_000:542
ExamVisible  == isExamMode /\ ~loading                        \* part_000:555
DockVisible  == result # Null /\ ~loading /\ ~isExamMode      \* part_000:566, 610
\* part_000:529, 619: the chat panel needs a bundle; it is opened from the dock,
\* which every state with a bundle has shown since the page was loaded
ChatVisible  == result # Null
FormVisible  == ExamVisible /\ gradingResult = Null           \* part_000:558-561
GradedVisible == ExamVisible /\ gradingResult # Null          \* part_000:558-559
\* part_000:559 reads gradingResult.corrections.map: rendering throws on a grading
\* result without corrections, and the component is unmounted
RenderThrows == GradedVisible /\ gradingResult.isError
Mounted == ~RenderThrows

NoAnswers == [q \in QIds |-> Unset]

Request(kind, slot) ==
    [kind |-> kind, slot |-> slot, abandoned |-> FALSE, file |-> file, topic |-> topic,
     result |-> result, nodeId |-> <<>>, label |-> <<>>, payload |-> <<>>,
     context |-> UndefStr, retake |-> FALSE]

InFlight(kind) == {r \in inflight : r.kind = kind}

\* the request leaves: fetch is called
SendRequest(rs, r) ==
    /\ started < MaxRequests
    /\ inflight' = rs \cup {r}
    /\ started' = started + 1
Abandon(rs) == {[r EXCEPT !.abandoned = TRUE] : r \in rs}

\* part_000:310-317: the mount effect restores the saved bundle and builds its graph
Mount(saved) ==
    /\ result = saved
    /\ storage = saved
    /\ nodes = (IF saved # Null /\ saved.hasEdges THEN NewNodes(saved.mindMapEdges) ELSE <<>>)
    /\ edges = (IF saved # Null /\ saved.hasEdges THEN NewEdges(saved.mindMapEdges) ELSE <<>>)
    /\ dagreNodes = (IF saved # Null /\ saved.hasEdges
                     THEN LayoutNodes(NewNodes(saved.mindMapEdges), {}) ELSE {})
    /\ dagreEdges = (IF saved # Null /\ saved.hasEdges
                     THEN LayoutEdges(NewEdges(saved.mindMapEdges), {}) ELSE {})

\* part_000:272-304: the state hooks' initial values
InitHomeVars ==
    /\ loading = FALSE
    /\ error = NullStr
    /\ topic = ""
    /\ file = FALSE
    /\ chatMessages = <<>>
    /\ isChatLoading = FALSE
    /\ isExamMode = FALSE
    /\ examQuestions = <<>>
    /\ examAnswers = NoAnswers
    /\ gradingResult = Null
    /\ isGrading = FALSE
    /\ inflight = {}
    /\ started = 0

examVars  == <<isExamMode, examQuestions, examAnswers, gradingResult, isGrading>>
chatVars  == <<chatMessages, isChatLoading>>
graphVars == <<nodes, edges, dagreNodes, dagreEdges>>
inputVars == <<topic, file>>

(***************************************************************************)
(* Home: handlers.  A handler runs to its await in one step; the           *)
(* continuation after the await is the step that consumes the reply.       *)
(***************************************************************************)
\* part_000:327-335 (the state this model keeps)
ResetSession ==
    /\ result' = Null
    /\ file' = FALSE
    /\ topic' = ""
    /\ isExamMode' = FALSE
    /\ gradingResult' = Null
    /\ nodes' = <<>>
    /\ edges' = <<>>
    /\ chatMessages' = <<>>
    /\ storage' = Null

\* part_000:621-622: Clear Session / New Topic
Reset ==
    /\ Mounted /\ DockVisible
    /\ ResetSession
    /\ inflight' = Abandon(inflight)
    /\ UNCHANGED <<loading, error, isChatLoading, examQuestions,
                   examAnswers, isGrading, dagreNodes, dagreEdges, started, routeVars>>

\* part_000:546: typing in the topic input
SetTopic ==
    /\ Mounted /\ InputVisible
    /\ \E t \in Topics : topic' = t
    /\ UNCHANGED <<loading, error, result, file, chatVars, examVars, graphVars,
                   storage, inflight, started, routeVars>>

\* part_000:546, 491-496: choosing or removing the file
SetFile ==
    /\ Mounted /\ InputVisible
    /\ \E f \in BOOLEAN : file' = f
    /\ UNCHANGED <<loading, error, result, topic, chatVars, examVars, graphVars,
                   storage, inflight, started, routeVars>>

\* part_000:361: nothing to generate from
Blank == TrimTopic(topic) = "" /\ ~file

\* the blank test on the untrimmed topic
HandleGenerate_Untrimmed ==
    /\ Mounted /\ InputVisible
    /\ IF topic = "" /\ ~file
       THEN UNCHANGED vars
       ELSE /\ loading' = TRUE
            /\ error' = NullStr
            /\ ResetSession
            /\ SendRequest(Abandon(inflight), Request("generate", 0))
            /\ UNCHANGED <<isChatLoading, examQuestions, examAnswers,
                           isGrading, dagreNodes, dagreEdges, routeVars>>
\* part_000:360-369, up to the await
HandleGenerate ==
    /\ Mounted /\ InputVisible
    /\ IF Blank
       THEN UNCHANGED vars
       ELSE /\ loading' = TRUE
            /\ error' = NullStr
            /\ ResetSession
            /\ SendRequest(Abandon(inflight), Request("generate", 0))
            /\ UNCHANGED <<isChatLoading, examQuestions, examAnswers,
                           isGrading, dagreNodes, dagreEdges, routeVars>>

\* part_000:371, 375: the message of what was thrown
ErrorMessage(rep) ==
    CASE rep.kind = "throw" -> "Failed to fetch"
      [] OTHER -> IF rep.body.error \in {UndefStr, ""} THEN "Generation Failed"
                  ELSE rep.body.error

\* part_000:371: the reply is taken as the StudyBundle
GenerateSucceeds(rep) == rep.kind = "json" /\ rep.ok

\* part_000:370-377
GenerateContinue(r, rep) ==
    /\ Mounted
    /\ r \in InFlight("generate") /\ rep \in RepliesTo(r)
    /\  /\ inflight' = inflight \ {r}
         /\ loading' = FALSE
         /\ IF GenerateSucceeds(rep)
            THEN /\ result' = rep.body
                 /\ storage' = rep.body
                 /\ error' = error
                 /\ IF rep.body.hasEdges
                    THEN ProcessMindMapData(rep.body.mindMapEdges)
                    ELSE UNCHANGED graphVars
            ELSE /\ error' = ErrorMessage(rep)
                 /\ UNCHANGED <<result, storage, graphVars>>
    /\ UNCHANGED <<inputVars, chatVars, examVars, started, routeVars>>

\* slot tells apart requests that are alike in everything else
Expansion(n, k) ==
    [Request("expand", k) EXCEPT !.nodeId = nodes[n].id, !.label = nodes[n].label]
FreeSlots(n) == {k \in 0..MaxRequests : Expansion(n, k) \notin inflight}
FirstFree(n) == CHOOSE k \in FreeSlots(n) : \A j \in FreeSlots(n) : k <= j

\* part_000:408
MarkThinking(ns, id) ==
    [n \in DOMAIN ns |->
        IF ns[n].id = id THEN [ns[n] EXCEPT !.label = Thinking, !.dashed = TRUE]
        ELSE ns[n]]

\* part_000:421
RestoreLabel(ns, id, label) ==
    [n \in DOMAIN ns |->
        IF ns[n].id = id THEN [ns[n] EXCEPT !.label = label, !.dashed = FALSE]
        ELSE ns[n]]

\* part_000:406-412, up to the await
OnNodeClick ==
    /\ Mounted /\ DockVisible
    /\ \E n \in DOMAIN nodes :
         /\ nodes[n].label # <<>>
         /\ nodes' = MarkThinking(nodes, nodes[n].id)
         /\ SendRequest(inflight, Expansion(n, FirstFree(n)))
    /\ UNCHANGED <<loading, error, result, inputVars, chatVars, examVars, edges,
                   dagreNodes, dagreEdges, storage, routeVars>>

\* part_000:414: data.newEdges is there
HasNewEdges(rep) == rep.kind = "json" /\ ~rep.body.isError

\* part_000:415
AllEdges(r, rep) ==
    (IF r.result # Null THEN r.result.mindMapEdges ELSE <<>>) \o rep.body.newEdges

\* part_000:413-423
ExpandContinue(r, rep) ==
    /\ Mounted
    /\ r \in InFlight("expand") /\ rep \in RepliesTo(r)
    /\  /\ inflight' = inflight \ {r}
         /\ IF rep.kind = "json"
            THEN IF HasNewEdges(rep)
                 THEN /\ IF r.result # Null
                         THEN /\ result' = [r.result EXCEPT
                                              !.mindMapEdges = AllEdges(r, rep),
                                              !.hasEdges = TRUE]
                              /\ storage' = result'
                         ELSE UNCHANGED <<result, storage>>
                      /\ ProcessMindMapData(AllEdges(r, rep))
                 ELSE UNCHANGED <<result, storage, graphVars>>
            ELSE /\ nodes' = RestoreLabel(nodes, r.nodeId, r.label)
                 /\ UNCHANGED <<result, storage, edges, dagreNodes, dagreEdges>>
    /\ UNCHANGED <<loading, error, inputVars, chatVars, examVars, started, routeVars>>

\* part_000:427-432, up to the await (Start Full Exam, Retake Exam; the request
\* notes whether it was the Retake button of the graded view that was pressed)
StartExam ==
    /\ Mounted
    /\ DockVisible \/ GradedVisible
    /\ loading' = TRUE
    /\ isExamMode' = TRUE
    /\ gradingResult' = Null
    /\ examAnswers' = NoAnswers
    /\ SendRequest(inflight, [Request("exam", 0) EXCEPT !.retake = GradedVisible])
    /\ UNCHANGED <<error, result, inputVars, chatVars, examQuestions, isGrading,
                   graphVars, storage, routeVars>>

\* the questions set only when there were none
ExamOf_KeepsPrevious(rep) ==
    IF examQuestions # <<>> THEN examQuestions
    ELSE IF rep.body.isError THEN <<>> ELSE rep.body.exam
\* part_000:434: data.exam || []
ExamOf(rep) == IF rep.body.isError THEN <<>> ELSE rep.body.exam

\* setLoading(false) at the end of the try block instead of in finally
ExamContinue_NoFinally(r, rep) ==
    /\ Mounted
    /\ r \in InFlight("exam") /\ rep \in RepliesTo(r)
    /\ inflight' = inflight \ {r}
    /\ IF rep.kind = "json"
       THEN /\ examQuestions' = ExamOf(rep)
            /\ loading' = FALSE
            /\ UNCHANGED <<error, isExamMode>>
       ELSE /\ error' = "Exam generation failed"
            /\ isExamMode' = FALSE
            /\ UNCHANGED <<examQuestions, loading>>
    /\ UNCHANGED <<result, inputVars, chatVars, examAnswers, gradingResult, isGrading,
                   graphVars, storage, started, routeVars>>

\* part_000:433-441
ExamContinue(r, rep) ==
    /\ Mounted
    /\ r \in InFlight("exam") /\ rep \in RepliesTo(r)
    /\  /\ inflight' = inflight \ {r}
         /\ loading' = FALSE
         /\ IF rep.kind = "json"
            THEN /\ examQuestions' = ExamOf(rep)
                 /\ UNCHANGED <<error, isExamMode>>
            ELSE /\ error' = "Exam generation failed"
                 /\ isExamMode' = FALSE
                 /\ UNCHANGED examQuestions
    /\ UNCHANGED <<result, inputVars, chatVars, examAnswers, gradingResult, isGrading,
                   graphVars, storage, started, routeVars>>

QuestionIds == {examQuestions[n].id : n \in DOMAIN examQuestions}

\* part_000:561: choosing an option, typing an answer
SetAnswer ==
    /\ Mounted /\ FormVisible
    /\ \E q \in QuestionIds : \E a \in AnswersTo(q) :
         examAnswers' = [examAnswers EXCEPT ![q] = a]
    /\ UNCHANGED <<loading, error, result, inputVars, chatVars, isExamMode,
                   examQuestions, gradingResult, isGrading, graphVars, storage,
                   inflight, started, routeVars>>

\* the recorded answer sent as it is, no 'No answer' default
UserContext_RawAnswers(qs, as) ==
    [n \in DOMAIN qs |->
        [question |-> qs[n].question, answer |-> as[qs[n].id]]]
\* part_000:449
UserContext(qs, as) ==
    [n \in DOMAIN qs |->
        [question |-> qs[n].question,
         answer |-> IF as[qs[n].id] \in {Unset, ""} THEN "No answer" ELSE as[qs[n].id]]]

\* part_000:444-450, up to the await (the button is disabled while grading)
SubmitExam ==
    /\ Mounted /\ FormVisible
    /\ ~isGrading
    /\ isGrading' = TRUE
    /\ SendRequest(inflight,
          [Request("grade", 0) EXCEPT !.payload = UserContext(examQuestions, examAnswers)])
    /\ UNCHANGED <<loading, error, result, inputVars, chatVars, isExamMode,
                   examQuestions, examAnswers, gradingResult, graphVars, storage,
                   routeVars>>

\* part_000:451-452: whatever body the reply has becomes the grading result
GradeApplied(rep) == rep.kind = "json"

\* part_000:451-459
GradeContinue(r, rep) ==
    /\ Mounted
    /\ r \in InFlight("grade") /\ rep \in RepliesTo(r)
    /\  /\ inflight' = inflight \ {r}
         /\ isGrading' = FALSE
         /\ IF GradeApplied(rep)
            THEN gradingResult' = rep.body
            ELSE UNCHANGED gradingResult
    /\ UNCHANGED <<loading, error, result, inputVars, chatVars, isExamMode,
                   examQuestions, examAnswers, graphVars, storage, started, routeVars>>

\* part_000:557: Exit Exam
ExitExam ==
    /\ Mounted /\ ExamVisible
    /\ isExamMode' = FALSE
    /\ UNCHANGED <<loading, error, result, inputVars, chatVars, examQuestions,
                   examAnswers, gradingResult, isGrading, graphVars, storage,
                   inflight, started, routeVars>>

Messages == {" ", "hi"}
UserMsg(m) == [role |-> "user", content |-> m]
AiMsg(m)   == [role |-> "ai", content |-> m]

\* the context left at the topic, the bundle ignored
ContextPayload_TopicOnly == topic
\* part_000:385-393
ContextPayload == IF result # Null THEN result.content ELSE topic

\* part_000:380-399, up to the await (the button is disabled while a chat is loading)
HandleSendMessage ==
    /\ Mounted /\ ChatVisible
    /\ ~isChatLoading
    /\ \E m \in Messages :
         IF m = " "
         THEN UNCHANGED vars
         ELSE /\ chatMessages' = Append(chatMessages, UserMsg(m))
              /\ isChatLoading' = TRUE
              /\ SendRequest(inflight,
                   [Request("chat", 0) EXCEPT
                       !.file = FALSE,
                       !.payload = Append(chatMessages, UserMsg(m)),
                       !.context = ContextPayload])
              /\ UNCHANGED <<loading, error, result, inputVars, examVars,
                             graphVars, storage, routeVars>>

\* part_000:401
ReplyText(rep) == IF rep.body.isError THEN "Error" ELSE rep.body.reply

\* part_000:400-402
ChatContinue(r, rep) ==
    /\ Mounted
    /\ r \in InFlight("chat") /\ rep \in RepliesTo(r)
    /\  /\ inflight' = inflight \ {r}
         /\ isChatLoading' = FALSE
         /\ chatMessages' = Append(chatMessages,
                                   IF rep.kind = "json" THEN AiMsg(ReplyText(rep))
                                   ELSE AiMsg("Error."))
    /\ UNCHANGED <<loading, error, result, inputVars, examVars,
                   graphVars, storage, started, routeVars>>

\* part_000:310-317: the page is loaded again; the mount effect restores the bundle
Reload ==
    /\ loading' = FALSE
    /\ error' = NullStr
    /\ topic' = ""
    /\ file' = FALSE
    /\ chatMessages' = <<>>
    /\ isChatLoading' = FALSE
    /\ isExamMode' = FALSE
    /\ examQuestions' = <<>>
    /\ examAnswers' = NoAnswers
    /\ gradingResult' = Null
    /\ isGrading' = FALSE
    /\ inflight' = {}
    /\ result' = storage
    /\ storage' = storage
    /\ IF storage # Null /\ storage.hasEdges
       THEN /\ nodes' = NewNodes(storage.mindMapEdges)
            /\ edges' = NewEdges(storage.mindMapEdges)
            /\ dagreNodes' = LayoutNodes(NewNodes(storage.mindMapEdges), {})
            /\ dagreEdges' = LayoutEdges(NewEdges(storage.mindMapEdges), {})
       ELSE /\ nodes' = <<>> /\ edges' = <<>>
            /\ dagreNodes' = {} /\ dagreEdges' = {}
    /\ UNCHANGED <<started, routeVars>>

\* the awaited reply of a request arrives and its handler runs on
GenerateReply == \E r \in inflight : \E rep \in RepliesTo(r) : GenerateContinue(r, rep)
ExpandReply   == \E r \in inflight : \E rep \in RepliesTo(r) : ExpandContinue(r, rep)
ExamReply     == \E r \in inflight : \E rep \in RepliesTo(r) : ExamContinue(r, rep)
GradeReply    == \E r \in inflight : \E rep \in RepliesTo(r) : GradeContinue(r, rep)
ChatReply     == \E r \in inflight : \E rep \in RepliesTo(r) : ChatContinue(r, rep)

Continue(r, rep) ==
    \/ GenerateContinue(r, rep) \/ ExpandContinue(r, rep) \/ ExamContinue(r, rep)
    \/ GradeContinue(r, rep) \/ ChatContinue(r, rep)

Next ==
    \/ Reset \/ SetTopic \/ SetFile \/ HandleGenerate \/ GenerateReply
    \/ OnNodeClick \/ ExpandReply \/ StartExam \/ ExamReply \/ SetAnswer
    \/ SubmitExam \/ GradeReply \/ ExitExam \/ HandleSendMessage
    \/ ChatReply \/ Reload

(***************************************************************************)
(* Specifications                                                          *)
(***************************************************************************)
\* the session; the endpoint's variables rest
Init ==
    /\ InitHomeVars
    /\ \E saved \in {Null} \cup Bundles : Mount(saved)
    /\ InitRouteVars
    /\ req = (CHOOSE r \in Requests : TRUE)
    /\ envKey = TRUE
Spec == Init /\ [][Next]_vars

\* one request to the endpoint; the session's variables rest
InitRoute == InitRouteVars /\ InitHomeVars /\ Mount(Null)
SpecRoute == InitRoute /\ [][NextRoute]_vars

\* one request to either endpoint; the session's variables rest
InitChat ==
    /\ pc = "chat_start"
    /\ req \in ChatRequests
    /\ envKey \in BOOLEAN
    /\ listing = "none" /\ listCalls = 0 /\ selectedModel = DefaultModel
    /\ promptParts = <<>> /\ i = 0 /\ attempts = 0 /\ delays = 0
    /\ replies = <<>> /\ response = NoResponse /\ source = NoSource
    /\ InitHomeVars /\ Mount(Null)
InitEndpoints == InitRoute \/ InitChat
NextEndpoints == NextRoute \/ NextChat
SpecEndpoints == InitEndpoints /\ [][NextEndpoints]_vars

(***************************************************************************)
(* Properties of the generate endpoint (under SpecRoute)                   *)
(***************************************************************************)
PlainObject == [k |-> <<"t">>, v |-> <<"T">>, empty |-> FALSE]
ValidReplies == {Http(TRUE, 0, TRUE, PlainText), Http(TRUE, 0, TRUE, FencedText)}
MalformedReply == Http(TRUE, 0, TRUE, GarbageText)
\* a non-OK status other than busy, or an OK reply without text
NonBusyFailures ==
    {Http(FALSE, 429, FALSE, <<>>), Http(FALSE, 0, FALSE, <<>>),
     Http(TRUE, 0, FALSE, <<>>), Http(TRUE, 0, TRUE, <<>>)}

BusyBusyValid ==
    /\ Len(replies) = 3
    /\ replies[1] = Busy /\ replies[2] = Busy /\ replies[3] \in ValidReplies

\* C1: when the provider answers busy, busy and then a valid JSON payload, the
\* endpoint has made exactly 3 attempts, waited exactly 2 delays, and returns the
\* parsed payload as its success response.
C1_BusyTwiceThenSuccess ==
    BusyBusyValid =>
        /\ pc = "done"
        /\ attempts = 3
        /\ delays = 2
        /\ response = JsonResponse(PlainObject, 200)

C1_Witness == BusyBusyValid /\ pc = "done"

AllBusy == replies = <<Busy, Busy, Busy>>

\* C2: when the provider answers every attempt busy, the endpoint responds
\* ServiceUnavailable (503 with an error body) after exactly 3 attempts.
C2_AllBusyServiceUnavailable ==
    (AllBusy /\ pc = "done") => (attempts = 3 /\ response = ServiceUnavailable)

AllNonBusyFailures ==
    /\ replies # <<>>
    /\ \A n \in DOMAIN replies : replies[n] \in NonBusyFailures

\* C3: when every attempt is answered with a non-busy failure, the endpoint makes
\* exactly 3 attempts, never delays, and then responds ServiceUnavailable.
C3_FailuresExhaustBudget ==
    AllNonBusyFailures =>
        /\ delays = 0
        /\ pc # "delay"
        /\ (pc = "done") <=> (Len(replies) = 3)
        /\ (pc = "done") => (attempts = 3 /\ response = ServiceUnavailable)

C3_Witness == AllNonBusyFailures /\ pc = "done"

\* C4 as claimed: after a reply that does not parse, no further attempt is sent.
C4_MalformedNotRetried ==
    \A n \in DOMAIN replies : (replies[n] = MalformedReply) => (attempts = n)

\* C4: a reply that does not parse is never returned as success; it is retried
\* like any other non-busy failure: the next attempt follows without a delay, and
\* on the 3rd attempt the endpoint responds ServiceUnavailable.
C4_MalformedRetried ==
    (replies # <<>> /\ replies[Len(replies)] = MalformedReply) =>
        IF Len(replies) = MAX_RETRIES
        THEN pc = "done" /\ response = ServiceUnavailable
        ELSE /\ pc \in {"send", "await"}
             /\ response = NoResponse
             /\ attempts \in {Len(replies), Len(replies) + 1}
             /\ delays = Cardinality({n \in DOMAIN replies : replies[n] = Busy})

C4_Witness ==
    \E n \in DOMAIN replies : replies[n] = MalformedReply /\ attempts > n

(***************************************************************************)
(* Properties of the session (under Spec)                                  *)
(***************************************************************************)
\* C5: a session is Graded only by a grade call that succeeded: the grading
\* result is never the body of an error response.
C5_GradedOnlyOnSuccess == gradingResult # Null => ~gradingResult.isError

\* the reply of a request that a reset has abandoned is being handled
AbandonedReplyStep ==
    \E r \in inflight : r.abandoned /\ \E rep \in RepliesTo(r) : Continue(r, rep)

\* C6: the reply of a request that was in flight when a reset happened is not
\* applied: it changes neither the bundle, the graph, the exam session, the chat
\* history nor the persisted bundle.
C6_AbandonedReplyNotApplied ==
    [][AbandonedReplyStep =>
          UNCHANGED <<result, nodes, edges, isExamMode, examQuestions, examAnswers,
                      gradingResult, chatMessages, storage>>]_vars

GenerateClass == {"generate", "expand", "exam"}

\* C7: at most one generate-class request is in flight at any time.
C7_OneGenerateClassRequest ==
    Cardinality({r \in inflight : r.kind \in GenerateClass}) <= 1

\* the graph as built: node ids and edges, whatever label a node shows meanwhile
Built(ns) == [n \in DOMAIN ns |-> ns[n].id]

\* the reply of a request that was not abandoned confirms its success
ConfirmedSuccessStep ==
    \E r \in inflight : ~r.abandoned /\
        \E rep \in RepliesTo(r) : rep.kind = "json" /\ rep.ok /\ Continue(r, rep)

\* C8: the bundle and the graph are modified only by an explicit reset or by the
\* confirmed success of a request (and by loading the page).
C8_BundleChangesOnlyOnSuccess ==
    [][(result' # result \/ Built(nodes') # Built(nodes) \/ edges' # edges) =>
          (Reset \/ ConfirmedSuccessStep \/ Reload)]_vars

\* C9: an explicit reset clears the bundle, the graph, the whole exam session and
\* the chat history in one step.
C9_ResetClearsEverything ==
    [][Reset =>
          /\ result' = Null /\ nodes' = <<>> /\ edges' = <<>>
          /\ examQuestions' = <<>> /\ examAnswers' = NoAnswers
          /\ gradingResult' = Null /\ ~isExamMode'
          /\ chatMessages' = <<>>]_vars

\* C10: starting a generation sets loading; when its request succeeds the session
\* is Ready (bundle set, not loading); when it fails the session is Idle (no
\* bundle, not loading) with the error message set.
C10_GenerateOutcome ==
    [][/\ (HandleGenerate /\ ~Blank) => loading'
       /\ \A r \in InFlight("generate") : \A rep \in RepliesTo(r) :
            GenerateContinue(r, rep) =>
               IF GenerateSucceeds(rep)
               THEN result' # Null /\ ~loading'
               ELSE result' = Null /\ ~loading' /\ error' # NullStr]_vars

\* the reply did not bring what was asked for: an error response or a thrown error
Failed(rep) == ~(rep.kind = "json" /\ rep.ok)

\* C11: whenever a generate, exam or grade request resolves, with any outcome, its
\* in-flight flag is false afterwards (loading for generate and exam, isGrading
\* for grade); and a flag is never up without a request of its kind in flight.
C11_FlagReleasedOnResolve ==
    [][/\ \A r \in inflight : \A rep \in RepliesTo(r) :
            /\ (GenerateContinue(r, rep) \/ ExamContinue(r, rep)) => ~loading'
            /\ GradeContinue(r, rep) => ~isGrading'
       /\ loading' => \E r \in inflight' : r.kind \in {"generate", "exam"}
       /\ isGrading' => \E r \in inflight' : r.kind = "grade"]_vars

\* an exam request has thrown and the session is out of Generating
C11_Witness == error = "Exam generation failed" /\ ~loading /\ inflight = {}

\* C12: when the exam request fails, by an error response or by a thrown error,
\* an error is surfaced and the session is back in a non-exam state, not loading.
C12_ExamFailureSurfaced ==
    [][\A r \in InFlight("exam") : \A rep \in RepliesTo(r) :
          (ExamContinue(r, rep) /\ Failed(rep)) =>
              (error' # NullStr /\ ~isExamMode' /\ ~loading')]_vars

\* C13: a retake clears the answers and the grading result as it starts and
\* presents nothing of the previous exam while its request is unresolved; the
\* questions presented when it resolves are those of the new reply (none when the
\* reply carries no exam), with answers and grading still cleared.
C13_RetakeStartsAfresh ==
    [][/\ (StartExam /\ GradedVisible) =>
            (gradingResult' = Null /\ examAnswers' = NoAnswers /\ ~ExamVisible')
       /\ (\E r \in inflight' : r.kind = "exam" /\ r.retake) => ~ExamVisible'
       /\ \A r \in InFlight("exam") : \A rep \in RepliesTo(r) :
            (r.retake /\ ExamContinue(r, rep) /\ ExamVisible') =>
                /\ examQuestions' = (IF rep.kind = "json" /\ ~rep.body.isError
                                     THEN rep.body.exam ELSE <<>>)
                /\ gradingResult' = Null /\ examAnswers' = NoAnswers]_vars

\* a retake is unresolved: the previous questions are still held, but not presented
C13_Witness ==
    /\ \E r \in inflight : r.kind = "exam" /\ r.retake
    /\ examQuestions # <<>> /\ gradingResult = Null /\ examAnswers = NoAnswers

\* C14: in every Graded state the grading result has as many corrections as
\* there are questions submitted.
C14_CorrectionsMatchQuestions ==
    (GradedVisible /\ ~gradingResult.isError) =>
        Len(gradingResult.corrections) = Len(examQuestions)

ValidQuizEntry(e) == Len(e.a) >= 2 /\ \E m \in DOMAIN e.a : e.a[m] = e.correct
ValidQuiz(b) == \A n \in DOMAIN b.quiz : ValidQuizEntry(b.quiz[n])

\* C15: every StudyBundle that comes to be held in session state has, in each
\* quiz entry, at least 2 options and its correct option among them.
C15_HeldBundleQuizValid ==
    [][(result' # Null /\ result' # result) => ValidQuiz(result')]_vars

(***************************************************************************)
(* Further properties of the endpoints                                     *)
(***************************************************************************)
\* the key the prompt of an action asks the reply to have (route.ts:86, 98, 108, 150)
ExpectedKey(action) ==
    CASE action = "expand" -> <<"n", "e", "w", "E", "d", "g", "e", "s">>
      [] action = "exam" -> <<"e", "x", "a", "m">>
      [] action = "grade" -> <<"s", "c", "o", "r", "e">>
      [] OTHER -> <<"t", "i", "t", "l", "e">>
HasExpectedShape(body, action) == ~body.empty /\ body.k = ExpectedKey(action)

\* C16: the generate endpoint answers with a success only if the reply parses to
\* the shape expected for the request's action.
C16_SuccessOnlyOfExpectedShape ==
    (response.kind = "json" /\ response.status = 200) =>
        HasExpectedShape(response.body, req.action)

\* C17: a reply that is the serialization of a JSON value wrapped in code-fence
\* delimiters is answered with exactly that value.
C17_FencedPayloadUnchanged ==
    \A t \in {PlainText, TickText, ExamText} :
        (pc = "done" /\ replies # <<>>
            /\ replies[Len(replies)] = Http(TRUE, 0, TRUE, Fenced(t))) =>
        response = JsonResponse(JsonParse(t), 200)

UnusableLink ==
    req.type = "youtube" /\ req.topic >= 0 /\ ~(req.topic > 0 /\ source.videoId)
NoCaptions == req.type = "youtube" /\ source.videoId /\ source.transcript = -1
EmptyDocument ==
    /\ req.type = "text" /\ req.fileData /\ req.mimeType # "image/png"
    /\ source.pdfText = 0
ImageFile == req.type = "text" /\ req.fileData /\ req.mimeType = "image/png"
InputErrors == {"Invalid YouTube Link", "No captions found.", "Empty PDF."}

\* C18: a default-action request with an unusable video link, a video without
\* captions or a document with no extracted text is answered 400 with an error
\* body, with no attempt sent to the provider; an image file is never answered 400.
C18_InvalidInputRejectedAtOnce ==
    (pc # "start" /\ req.action = "generate") =>
        /\ (UnusableLink \/ NoCaptions \/ EmptyDocument) =>
              /\ pc = "done"
              /\ response.status = 400
              /\ response.body \in {ErrorBody(m) : m \in InputErrors}
              /\ attempts = 0 /\ delays = 0 /\ replies = <<>>
        /\ ImageFile =>
              /\ response.status # 400
              /\ promptParts = <<Instruction("generate", 0), InlinePart, OcrPart>>

C18_Witness ==
    /\ pc = "done" /\ req.action = "generate" /\ EmptyDocument
    /\ req.mimeType = "application/pdf" /\ response.status = 400

\* C19: with no provider credential configured, both endpoints answer 401 with an
\* error body and make no call to the provider.
C19_MissingCredentialRejected ==
    (~envKey /\ pc = "done") =>
        /\ response.status = 401
        /\ response.body \in {ErrorBody("API Key missing."), ErrorBody("API Key is missing.")}
        /\ listCalls = 0 /\ attempts = 0

ListingFailed == listing \in {"throws", "malformed", "nomatch"}

\* C20: model resolution makes exactly one listing call and never fails the
\* request: when the listing call throws, is malformed or has no matching model,
\* the model is the hard-coded default and the request goes on to its prompt.
C20_ModelResolutionNeverFails ==
    (pc \notin {"start", "chat_start"}) =>
        /\ listCalls = 1
        /\ ListingFailed => selectedModel = DefaultModel
        /\ IF req.action = "chat"
           THEN IF req.messages < 0
                THEN response = InternalError /\ attempts = 0
                ELSE promptParts = ChatContents(req) /\ attempts = 1
           ELSE LET c == Compile(req, source)
                IN  IF c.early # Null
                    THEN response = c.early /\ attempts = 0
                    ELSE promptParts = c.parts /\ (pc # "done" => response = NoResponse)

C20_Witness == ListingFailed /\ selectedModel = DefaultModel /\ attempts >= 1

(***************************************************************************)
(* The graph builder                                                       *)
(***************************************************************************)
NodeIds(ns) == {ns[n].id : n \in DOMAIN ns}

\* C21: the build gives exactly one node per distinct normalized label: no two
\* nodes of the graph have the same id, labels differing only in case or
\* whitespace included.
C21_OneNodePerNormalizedLabel ==
    Len(nodes) = Cardinality(NodeIds(nodes))

\* es has n edges whose ids are e0 .. e(n-1) in order, no two alike
EdgesNumbered(es, n) ==
    /\ Len(es) = n
    /\ \A k \in 1..Len(es) : es[k].id = <<"e", k - 1>>
    /\ \A j, k \in 1..Len(es) : es[j].id = es[k].id => j = k

\* C22: every build from an edge list of length n leaves exactly n edges, with
\* ids e0 .. e(n-1) in input order and pairwise distinct.
C22_EdgesNumberedInOrder ==
    [][/\ \A r \in inflight : \A rep \in RepliesTo(r) :
            /\ (GenerateContinue(r, rep) /\ GenerateSucceeds(rep) /\ rep.body.hasEdges)
                  => EdgesNumbered(edges', Len(rep.body.mindMapEdges))
            /\ (ExpandContinue(r, rep) /\ HasNewEdges(rep))
                  => EdgesNumbered(edges', Len(AllEdges(r, rep)))
       /\ (Reload /\ storage # Null /\ storage.hasEdges)
             => EdgesNumbered(edges', Len(storage.mindMapEdges))]_vars

C22_Witness ==
    /\ result # Null /\ Len(result.mindMapEdges) = 3
    /\ Len(edges) = 3 /\ edges[3].id = <<"e", 2>>

\* C23: in the built graph every edge's source and every edge's target is the id
\* of some node of the graph: edges reference node ids, never raw labels.
C23_EdgesReferenceNodeIds ==
    \A k \in DOMAIN edges :
        edges[k].source \in NodeIds(nodes) /\ edges[k].target \in NodeIds(nodes)

\* a graph built by an expansion, with the edge the expansion added
C23_Witness ==
    /\ Len(edges) = 3 /\ edges[3].source = <<"b">> /\ edges[3].target = <<"d">>
    /\ <<"d">> \in NodeIds(nodes)

\* the normalized labels an edge list mentions
IdsOf(rawEdges) ==
    {NodeId(rawEdges[k].source) : k \in DOMAIN rawEdges}
        \cup {NodeId(rawEdges[k].target) : k \in DOMAIN rawEdges}

\* C24: the set of node ids a build leaves is decided by its edge list alone, so
\* two builds on the same list give the same set whatever was built in between
\* (whatever graph was shown and whatever the layout graph still holds).
C24_NodeIdsDecidedByEdgeList ==
    [][/\ \A r \in inflight : \A rep \in RepliesTo(r) :
            /\ (GenerateContinue(r, rep) /\ GenerateSucceeds(rep) /\ rep.body.hasEdges)
                  => NodeIds(nodes') = IdsOf(rep.body.mindMapEdges)
            /\ (ExpandContinue(r, rep) /\ HasNewEdges(rep))
                  => NodeIds(nodes') = IdsOf(AllEdges(r, rep))
       /\ (Reload /\ storage # Null /\ storage.hasEdges)
             => NodeIds(nodes') = IdsOf(storage.mindMapEdges)]_vars

\* the bundle's list built again after an expansion was built in between
C24_Witness ==
    /\ result # Null /\ result.mindMapEdges = BundleEdges
    /\ NodeIds(nodes) = IdsOf(BundleEdges)
    /\ <<"d">> \in dagreNodes

(***************************************************************************)
(* The generate endpoint: prompt size and the retry loop                   *)
(***************************************************************************)
LimitOf(action) ==
    CASE action = "generate" -> GenerateLimit
      [] action = "expand" -> ExpandLimit
      [] action = "exam" -> ExamLimit
      [] action = "grade" -> GradeLimit

\* C26: the user-supplied text embedded in a compiled prompt never exceeds the
\* action's limit, whichever request field supplies it: 40,000 characters of
\* content for generate, 3,000 for expand, 10,000 for exam and 5,000 for grade.
C26_EmbeddedTextWithinLimit ==
    \A k \in DOMAIN promptParts :
        /\ promptParts[k].kind = "instruction"
              => promptParts[k].len <= LimitOf(promptParts[k].action)
        /\ promptParts[k].kind = "text" => promptParts[k].len <= GenerateLimit

(***************************************************************************)
(* The page: chat context and persistence                                  *)
(***************************************************************************)
\* C27: every chat request sent while a bundle exists carries as context the text
\* derived from the bundle held at the time of sending (its title, summary, key
\* points and flashcards).
C27_ChatCarriesBundleContext ==
    [][(isChatLoading' /\ ~isChatLoading /\ result # Null) =>
          \E r \in inflight' \ inflight :
              r.kind = "chat" /\ r.context = result.content]_vars

\* a chat request in flight on the second bundle
C27_Witness ==
    \E r \in InFlight("chat") :
        /\ result # Null /\ result.content = "B2" /\ r.context = "B2"
        /\ isChatLoading

\* the graph is the one built from the bundle's edge list (none without a list)
GraphOf(b) ==
    IF b # Null /\ b.hasEdges
    THEN nodes = NewNodes(b.mindMapEdges) /\ edges = NewEdges(b.mindMapEdges)
    ELSE nodes = <<>> /\ edges = <<>>

\* a generation started after the last reset delivers its bundle
FreshGeneration ==
    \E r \in InFlight("generate") : \E rep \in RepliesTo(r) :
        ~r.abandoned /\ GenerateContinue(r, rep)

\* C28: on load the session holds what was last persisted: the last bundle, edges
\* added by expansions included, with its graph rebuilt from the bundle's edge
\* list; and no bundle when the last action was an explicit reset (once a reset
\* has emptied the store, only a generation started after it fills it again).
C28_LoadRestoresLastPersisted ==
    [][/\ Reload => (result' = storage /\ GraphOf(storage)')
       /\ (result' # result /\ result' # Null) => storage' = result'
       /\ Reset => storage' = Null
       /\ (storage = Null /\ storage' # Null) => FreshGeneration]_vars

(***************************************************************************)
(* The generate endpoint: the retry loop                                   *)
(***************************************************************************)
Succeeded == response.kind = "json" /\ response.status = 200

\* C29: whatever the provider answers, one request sends at most 3 generation
\* attempts, and none after an attempt whose reply was returned as the success.
C29_AtMostThreeAttempts ==
    [][/\ attempts' <= 3
       /\ Succeeded => (attempts' = attempts /\ response' = response)]_vars

\* the budget spent on two failures and a success on the third attempt
C29_Witness ==
    /\ attempts = 3 /\ Len(replies) = 3 /\ Succeeded /\ pc = "done"
    /\ ~IsBusy(replies[1]) /\ IsBusy(replies[2])

BusyCount(rs) == Cardinality({k \in DOMAIN rs : IsBusy(rs[k])})
Outstanding == attempts - Len(replies)

\* C30: within one request the attempts are strictly sequential: an attempt is
\* sent only when every earlier attempt's reply has been received and a delay has
\* elapsed for each busy reply; at most one provider call is outstanding.
C30_AttemptsSequential ==
    [][/\ Outstanding' \in {0, 1}
       /\ attempts' # attempts =>
             /\ attempts' = attempts + 1
             /\ Outstanding = 0
             /\ delays = BusyCount(replies)]_vars

\* the second attempt is outstanding, sent after a busy reply and its delay
C30_Witness ==
    /\ pc = "await" /\ attempts = 2 /\ Outstanding = 1
    /\ IsBusy(replies[1]) /\ delays = 1

(***************************************************************************)
(* The graph builder and the layout graph; expansions                      *)
(***************************************************************************)
EdgePairs(es) == {<<es[k].source, es[k].target>> : k \in DOMAIN es}

\* C31: the layout input of a build holds exactly the nodes and edges of the
\* list given to that build, nothing carried over from earlier builds or from
\* before a reset: whenever a graph is shown, the layout graph holds that graph.
C31_LayoutHoldsOnlyThisBuild ==
    (nodes # <<>>) =>
        /\ dagreNodes = NodeIds(nodes)
        /\ dagreEdges = EdgePairs(edges)

Labels(rawEdges) ==
    {rawEdges[k].source : k \in DOMAIN rawEdges}
        \cup {rawEdges[k].target : k \in DOMAIN rawEdges}
NodesLabelled(ns, l) == {k \in DOMAIN ns : ns[k].label = l}

\* C32: after an expansion whose new edges mention a label that already occurs,
\* character for character, in the existing edge list, the rebuilt graph has
\* exactly one node for that label.
C32_RepeatedLabelOneNode ==
    [][\A r \in inflight : \A rep \in RepliesTo(r) :
          (ExpandContinue(r, rep) /\ HasNewEdges(rep) /\ r.result # Null) =>
              \A l \in Labels(r.result.mindMapEdges) \cap Labels(rep.body.newEdges) :
                  Cardinality(NodesLabelled(nodes', l)) = 1]_vars

\* the graph after the expansion B -> D of the first bundle
C32_Witness ==
    /\ result # Null /\ result.mindMapEdges = BundleEdges \o <<RawEdge(LB, LD)>>
    /\ Cardinality(NodesLabelled(nodes, LB)) = 1
    /\ Len(nodes) = 4

Roots(ns) == {k \in DOMAIN ns : ns[k].root}

\* C33: a graph built from a non-empty edge list has exactly one node marked as
\* root, the first-seen label (the source of the first edge); and the root of
\* the graph shown is the same before and after any expansion.
C33_RootStable ==
    [][/\ (nodes' # <<>>) => (Roots(nodes') = {1} /\ nodes'[1].id = edges'[1].source)
       /\ \A r \in inflight : \A rep \in RepliesTo(r) :
            (ExpandContinue(r, rep) /\ HasNewEdges(rep)) =>
                /\ nodes'[1].label = AllEdges(r, rep)[1].source
                /\ (nodes # <<>>) => nodes'[1].id = nodes[1].id]_vars

(***************************************************************************)
(* The page: blank input, expansions, requests and chat                    *)
(***************************************************************************)
\* the session state a handler can change
sessionVars ==
    <<loading, error, result, topic, file, chatMessages, isChatLoading, isExamMode,
      examQuestions, examAnswers, gradingResult, isGrading, nodes, edges, storage,
      inflight, started>>

\* C34: handleGenerate invoked with a blank topic (empty or whitespace only) and
\* no file sends no request and leaves the whole session state unchanged.
C34_BlankGenerateDoesNothing ==
    [][(Blank /\ HandleGenerate) =>
          /\ UNCHANGED sessionVars
          /\ InFlight("generate")' = InFlight("generate")]_vars

\* the form holds only white space and no file
C34_Witness ==
    /\ InputVisible /\ topic = " " /\ ~file /\ ~loading
    /\ inflight = {} /\ started = 0

\* C35: between resets the bundle's edge list only grows under expansion: after
\* a successful expansion, overlapping ones included, it holds the edges it held
\* before and the new edges of that expansion.
C35_EdgeListOnlyGrows ==
    [][\A r \in inflight : \A rep \in RepliesTo(r) :
          (ExpandContinue(r, rep) /\ HasNewEdges(rep) /\ ~r.abandoned /\ result # Null) =>
              /\ result' # Null
              /\ Range(result.mindMapEdges) \subseteq Range(result'.mindMapEdges)
              /\ Range(rep.body.newEdges) \subseteq Range(result'.mindMapEdges)]_vars

Placeholders(ns) == {k \in DOMAIN ns : ns[k].label = Thinking}

\* C36: a clicked node shows the placeholder 'Thinking...' from the moment its
\* expansion is sent; once the expansion resolves (new edges, an error response
\* or a throw) and no other expansion is in flight, no node keeps the placeholder.
C36_PlaceholderRemovedOnResolve ==
    [][/\ OnNodeClick => Placeholders(nodes') # {}
       /\ \A r \in inflight : \A rep \in RepliesTo(r) :
            (ExpandContinue(r, rep) /\ InFlight("expand")' = {})
                => Placeholders(nodes') = {}]_vars

BundleRequests ==
    {r \in inflight : r.kind \in {"expand", "exam", "grade"} /\ r.result # Null}

\* C37: every expand, exam and grade request sent while a bundle is shown carries
\* the material of that bundle: its topic field or its context field is not empty.
C37_RequestCarriesMaterial ==
    \A r \in BundleRequests : r.topic # "" \/ r.context \notin {UndefStr, ""}

\* entry n of a grade payload pairs question n with the answer recorded for its id
EntryFor(p, qs, as, n) ==
    /\ p[n].question = qs[n].question
    /\ as[qs[n].id] \in {Unset, ""} => p[n].answer = "No answer"
    /\ as[qs[n].id] \notin {Unset, ""} => p[n].answer = as[qs[n].id]

\* C38: the grade request built by submitExam has exactly one entry per exam
\* question, in question order, each pairing the question text with the answer
\* recorded for the question's id, or with 'No answer' when none or an empty one is.
C38_GradePayloadPerQuestion ==
    [][SubmitExam =>
          /\ inflight' # inflight
          /\ \A r \in inflight' \ inflight :
                /\ r.kind = "grade"
                /\ DOMAIN r.payload = DOMAIN examQuestions
                /\ \A n \in DOMAIN examQuestions :
                      EntryFor(r.payload, examQuestions, examAnswers, n)]_vars

\* a grade request is in flight for the two-question exam with the first question
\* answered and the second left empty
C38_Witness ==
    \E r \in InFlight("grade") :
        /\ Len(r.payload) = 2
        /\ r.payload[1].answer = "A"
        /\ r.payload[2].answer = "No answer"

RoleAt(k) == IF k % 2 = 1 THEN "user" ELSE "ai"

\* C39: a chat send appends one user message at once and one ai message when its
\* request resolves, and then clears isChatLoading; the chat history always
\* alternates user, ai, starting with a user message.
C39_ChatAlternates ==
    \A k \in DOMAIN chatMessages : chatMessages[k].role = RoleAt(k)

====
